---- MODULE Spec2Model ----
(***************************************************************************)
(* Model of the outbound mail sender (services/mailservice/mail.go) and of *)
(* the channel bookmark record (server/public/model).                      *)
(*                                                                         *)
(* An error value is the sequence of its messages, outermost wrap first;   *)
(* the nil error is the empty sequence.  errors.Wrap(err, msg) prepends    *)
(* msg.                                                                    *)
(***************************************************************************)
EXTENDS Integers, Sequences, FiniteSets, TLC

VARIABLES
    config,     \* the *SMTPConfig the callers pass
    env,        \* what the SMTP server / network does at each phase; decided on first use
    serial,     \* number of calls started so far
    call,       \* the call in progress (or the last one that returned)
    gor,        \* per call, the handshake goroutine NewSMTPClientAdvanced started
    open,       \* the connections currently open
    usedConns,  \* the connections opened by calls that already returned
    lastSetup,  \* per entry point, the setup steps and result of the last call that was not timed out
    wire,       \* what the server has accepted from the current call
    auth,       \* one smtp.Client.Auth exchange driven against an arbitrary server
    bookmark,   \* a ChannelBookmark record
    clock,      \* the millisecond clock read by the bookmark operations
    verdict     \* result of the last bookmark operation

mailVars == <<config, env, serial, call, gor, open, usedConns, lastSetup, wire>>
vars == <<config, env, serial, call, gor, open, usedConns, lastSetup, wire, auth, bookmark, clock, verdict>>

----------------------------------------------------------------------------
(* Bounds *)

MaxCalls == 2
MaxRounds == 3
MaxClock == 2
MaxUpdates == 2

----------------------------------------------------------------------------
(* Errors *)

Nil == <<>>

Wrap(err, msg) == <<msg>> \o err

connSecurityTls == "TLS"
connSecurityStarttls == "STARTTLS"

----------------------------------------------------------------------------
(* Configuration and mail data *)

SMTPPort == "25"

SMTPConfigs ==
    [ ConnectionSecurity : {"", connSecurityTls, connSecurityStarttls},
      Hostname : {"", "mm.local"},
      Server : {"", "smtp.test"},
      Port : {SMTPPort},
      Username : {"user"},
      Password : {"secret"},
      EnableSMTPAuth : BOOLEAN,
      SendEmailNotifications : BOOLEAN,
      FeedbackName : {"MM"},
      FeedbackEmail : {"noreply@mm.test"},
      ReplyToAddress : {""} ]

\* NewSMTPClient / ConnectToSMTPServer: the SmtpConnectionInfo built from a config
ConnectionInfo(cfg) ==
    [ ConnectionSecurity |-> cfg.ConnectionSecurity,
      SmtpServerName |-> cfg.Server,
      SmtpServerHost |-> cfg.Server,
      SmtpPort |-> cfg.Port,
      Auth |-> cfg.EnableSMTPAuth,
      SmtpUsername |-> cfg.Username,
      SmtpPassword |-> cfg.Password ]

Addresses == {"bob@x.test", "carol@y.test"}

\* values a caller may pass for a header; "zo+u00eb@x.test" stands for the
\* string whose third character is U+00EB, which is not plain ASCII
HeaderValues == {"carol@y.test", "zo+u00eb@x.test"}

\* base64 of the UTF-8 bytes of the values that are not plain ASCII
B64 == [ s \in {"zo+u00eb@x.test"} |-> "em/Dq0B4LnRlc3Q=" ]

\* mime.BEncoding.Encode("utf-8", s): s itself when it is plain ASCII, an encoded word otherwise
encodeRFC2047Word(s) ==
    IF s \in DOMAIN B64 THEN "=?utf-8?b?" \o B64[s] \o "?=" ELSE s

\* mail.Address.String()
AddressString(a) ==
    IF a.Name = "" THEN "<" \o a.Address \o ">"
    ELSE "\"" \o a.Name \o "\" <" \o a.Address \o ">"

NoHeaders == [k \in {} |-> ""]

MimeHeaderSets ==
    {NoHeaders} \cup [ {"To"} -> HeaderValues ] \cup [ {"TestHeader"} -> {"TestValue"} ]

MailData ==
    [ mimeTo : Addresses,
      smtpTo : {"carol@y.test"},
      from : [Name : {"MM"}, Address : {"noreply@mm.test"}],
      cc : {""},
      replyTo : [Name : {"MM"}, Address : {""}],
      subject : {"hi"},
      mimeHeaders : MimeHeaderSets ]

\* SendMailWithEmbeddedFilesUsingConfig: the mailData built from the arguments
MailFromConfig(to, cfg, ccMail) ==
    [ mimeTo |-> to,
      smtpTo |-> to,
      from |-> [Name |-> cfg.FeedbackName, Address |-> cfg.FeedbackEmail],
      cc |-> ccMail,
      replyTo |-> [Name |-> cfg.FeedbackName, Address |-> cfg.ReplyToAddress],
      subject |-> "hi",
      mimeHeaders |-> NoHeaders ]

\* SendMail: the header map handed to the message
BaseHeaderKeys(mail) ==
    {"From", "To", "Subject", "Content-Transfer-Encoding", "Auto-Submitted", "Precedence"}
        \cup (IF mail.replyTo.Address # "" THEN {"Reply-To"} ELSE {})
        \cup (IF mail.cc # "" THEN {"CC"} ELSE {})

BaseHeader(mail, k) ==
    CASE k = "From" -> AddressString(mail.from)
      [] k = "To" -> mail.mimeTo
      [] k = "Subject" -> encodeRFC2047Word(mail.subject)
      [] k = "Content-Transfer-Encoding" -> "8bit"
      [] k = "Auto-Submitted" -> "auto-generated"
      [] k = "Precedence" -> "bulk"
      [] k = "Reply-To" -> AddressString(mail.replyTo)
      [] k = "CC" -> mail.cc

Headers(mail) ==
    [ k \in BaseHeaderKeys(mail) \cup DOMAIN mail.mimeHeaders |->
        IF k \in DOMAIN mail.mimeHeaders
        THEN encodeRFC2047Word(mail.mimeHeaders[k])
        ELSE BaseHeader(mail, k) ]

NoMail == MailFromConfig("", [FeedbackName |-> "", FeedbackEmail |-> "", ReplyToAddress |-> ""], "")

----------------------------------------------------------------------------
(* Authentication strategies *)

\* advertised AUTH mechanism lists a server may send in its EHLO reply
AdvertLists ==
    { <<>>, <<"LOGIN">>, <<"PLAIN">>, <<"LOGIN", "PLAIN">>, <<"CRAM-MD5", "LOGIN">>, <<"plain">> }

\* the lists the modelled server chooses from
ServerAdverts == { <<"LOGIN">>, <<"LOGIN", "PLAIN">> }

NilBytes == "<nil>"

LoginAuth(username, password, host) ==
    [ kind |-> "login", username |-> username, password |-> password, host |-> host ]

\* smtp.PlainAuth("", username, password, host)
PlainAuth(username, password, host) ==
    [ kind |-> "plain", username |-> username, password |-> password, host |-> host ]

\* loginAuthStart without the host name check
loginAuthStartNoHostCheck(a, server) ==
    IF ~server.TLS
    THEN [ mech |-> "", resp |-> NilBytes, err |-> <<"unencrypted connection">> ]
    ELSE [ mech |-> "LOGIN", resp |-> "", err |-> Nil ]

loginAuthStart(a, server) ==
    IF ~server.TLS
    THEN [ mech |-> "", resp |-> NilBytes, err |-> <<"unencrypted connection">> ]
    ELSE IF server.Name # a.host
    THEN [ mech |-> "", resp |-> NilBytes, err |-> <<"wrong host name">> ]
    ELSE [ mech |-> "LOGIN", resp |-> "", err |-> Nil ]

loginAuthNext(a, fromServer, more) ==
    IF more
    THEN CASE fromServer = "Username:" -> [ resp |-> a.username, err |-> Nil ]
           [] fromServer = "Password:" -> [ resp |-> a.password, err |-> Nil ]
           [] OTHER -> [ resp |-> NilBytes, err |-> <<"Unknown fromServer">> ]
    ELSE [ resp |-> NilBytes, err |-> Nil ]

\* net/smtp plainAuth, the strategy smtp.PlainAuth returns
isLocalhost(name) == name \in {"localhost", "127.0.0.1", "::1"}

plainAuthStart(a, server) ==
    IF ~server.TLS /\ ~isLocalhost(server.Name)
    THEN [ mech |-> "", resp |-> NilBytes, err |-> <<"unencrypted connection">> ]
    ELSE IF server.Name # a.host
    THEN [ mech |-> "", resp |-> NilBytes, err |-> <<"wrong host name">> ]
    ELSE [ mech |-> "PLAIN", resp |-> "" \o "|" \o a.username \o "|" \o a.password, err |-> Nil ]

plainAuthNext(a, fromServer, more) ==
    IF more
    THEN [ resp |-> NilBytes, err |-> <<"unexpected server challenge">> ]
    ELSE [ resp |-> NilBytes, err |-> Nil ]

AuthStart(a, server) ==
    IF a.kind = "plain" THEN plainAuthStart(a, server) ELSE loginAuthStart(a, server)

AuthNext(a, fromServer, more) ==
    IF a.kind = "plain" THEN plainAuthNext(a, fromServer, more) ELSE loginAuthNext(a, fromServer, more)

\* authChooserPick looking only at the first advertised mechanism
authChooserPickFirstOnly(connectionInfo, server) ==
    LET smtpAddress == connectionInfo.SmtpServerName \o ":" \o connectionInfo.SmtpPort
    IN  IF Len(server.Auth) > 0 /\ server.Auth[1] = "PLAIN"
        THEN PlainAuth(connectionInfo.SmtpUsername, connectionInfo.SmtpPassword, smtpAddress)
        ELSE LoginAuth(connectionInfo.SmtpUsername, connectionInfo.SmtpPassword, smtpAddress)

\* authChooser.Start: the strategy it installs in a.Auth
authChooserPick(connectionInfo, server) ==
    LET smtpAddress == connectionInfo.SmtpServerName \o ":" \o connectionInfo.SmtpPort
        login == LoginAuth(connectionInfo.SmtpUsername, connectionInfo.SmtpPassword, smtpAddress)
    IN  IF \E k \in DOMAIN server.Auth : server.Auth[k] = "PLAIN"
        THEN PlainAuth(connectionInfo.SmtpUsername, connectionInfo.SmtpPassword,
                       connectionInfo.SmtpServerName \o ":" \o connectionInfo.SmtpPort)
        ELSE login

\* authChooser.Start: the result of starting the installed strategy
authChooserStart(connectionInfo, server) ==
    AuthStart(authChooserPick(connectionInfo, server), server)

----------------------------------------------------------------------------
(* The environment: what the network and the SMTP server answer at each    *)
(* phase.  An answer is chosen the first time a call reaches the phase and *)
(* is the same for every later call.                                       *)

Outcomes == {"ok", "err"}

EnvKeys == {"dial", "greet", "ehlo", "starttls", "creds", "needauth", "mail", "rcpt", "data", "write", "close"}

Unset == "unset"
UnsetList == <<"unset">>

EnvInit == [ ans |-> [k \in EnvKeys |-> Unset], advert |-> UnsetList, advertTLS |-> UnsetList ]

Decide(e, k, o) == e.ans[k] \in {Unset, o}

Answer(e, k, o) == [e EXCEPT !.ans[k] = o]

----------------------------------------------------------------------------
(* Calls *)

Calls == 1 .. MaxCalls

IdleCall ==
    [ kind |-> "none", pc |-> "idle", to |-> "", mail |-> NoMail,
      cset |-> FALSE, ctxErr |-> "none", conn |-> 0, opened |-> 0, connTLS |-> FALSE,
      tls |-> FALSE, broken |-> FALSE, didHello |-> FALSE, helloErr |-> FALSE,
      advert |-> <<>>, authed |-> FALSE, mech |-> "", tlsFailed |-> FALSE,
      clientDefers |-> FALSE, timedOut |-> FALSE,
      err |-> Nil, trace |-> <<>>, setupLen |-> -1 ]

NoWire == [ from |-> <<>>, rcpt |-> <<>>, body |-> <<>>, msgs |-> <<>> ]

NoSetup == [ set |-> FALSE, trace |-> <<>>, ok |-> FALSE ]

Traced(c, step) == [c EXCEPT !.trace = Append(@, step)]

\* the call returns from NewSMTPClient / ConnectToSMTPServer with error e (Nil on success)
SetupReturn(c, e) == [c EXCEPT !.pc = "returned", !.err = e, !.setupLen = Len(c.trace)]

RecordSetup(c) ==
    IF c.timedOut THEN lastSetup
    ELSE [lastSetup EXCEPT ![c.kind] = [ set |-> TRUE, trace |-> c.trace, ok |-> (c.err = Nil) ]]

\* smtp.Client.hello, run by the first command that needs it
HelloChoice(c, h, a) ==
    IF c.didHello THEN h = "ok" /\ a = c.advert
    ELSE /\ Decide(env, "ehlo", h)
         /\ IF h = "ok" THEN env.advert \in {UnsetList, a} ELSE a = c.advert

AfterHello(c, h, a) ==
    IF c.didHello THEN c
    ELSE [c EXCEPT !.didHello = TRUE, !.helloErr = (h = "err"), !.advert = a]

EnvAfterHello(e, c, h, a) ==
    IF c.didHello THEN e
    ELSE IF h = "ok" THEN [Answer(e, "ehlo", h) EXCEPT !.advert = a]
    ELSE Answer(e, "ehlo", h)

----------------------------------------------------------------------------
(* Entry points *)

CanStart == call.pc \in {"idle", "done"} /\ serial < MaxCalls

\* SendMailUsingConfig -> SendMailWithEmbeddedFilesUsingConfig -> sendMailUsingConfigAdvanced
StartSend ==
    /\ CanStart
    /\ \E to \in Addresses :
        LET c == [IdleCall EXCEPT !.kind = "send", !.to = to, !.mail = MailFromConfig(to, config, "")]
        IN  IF config.Server = ""
            THEN call' = [c EXCEPT !.pc = "done", !.setupLen = 0]
            ELSE call' = [c EXCEPT !.pc = "dial"]
    /\ lastSetup' = IF config.Server = ""
                    THEN [lastSetup EXCEPT !["send"] = [ set |-> TRUE, trace |-> <<>>, ok |-> TRUE ]]
                    ELSE lastSetup
    /\ serial' = serial + 1
    /\ wire' = NoWire
    /\ UNCHANGED <<auth, bookmark, clock, verdict, config, env, gor, open, usedConns>>

\* TestConnection without the SendEmailNotifications check
TestConnectionNoCheck ==
    /\ CanStart
    /\ call' = [IdleCall EXCEPT !.kind = "test", !.pc = "dial"]
    /\ serial' = serial + 1
    /\ wire' = NoWire
    /\ UNCHANGED <<auth, bookmark, clock, verdict, config, env, gor, open, usedConns, lastSetup>>

TestConnection ==
    /\ CanStart
    /\ IF ~config.SendEmailNotifications
       THEN call' = [IdleCall EXCEPT !.kind = "test", !.pc = "done", !.setupLen = 0,
                                     !.err = <<"SendEmailNotifications is not true">>]
       ELSE call' = [IdleCall EXCEPT !.kind = "test", !.pc = "dial"]
    /\ lastSetup' = IF ~config.SendEmailNotifications
                    THEN [lastSetup EXCEPT !["test"] = [ set |-> TRUE, trace |-> <<>>, ok |-> FALSE ]]
                    ELSE lastSetup
    /\ serial' = serial + 1
    /\ wire' = NoWire
    /\ UNCHANGED <<auth, bookmark, clock, verdict, config, env, gor, open, usedConns>>

\* SendMail called directly on a client the caller supplies
StartSendMail ==
    /\ CanStart
    /\ \E m \in MailData :
        call' = [IdleCall EXCEPT !.kind = "direct", !.pc = "mail", !.mail = m,
                                 !.cset = TRUE, !.didHello = TRUE, !.authed = TRUE]
    /\ serial' = serial + 1
    /\ wire' = NoWire
    /\ UNCHANGED <<auth, bookmark, clock, verdict, config, env, gor, open, usedConns, lastSetup>>

\* NewSMTPClient called by a caller outside this file, with a connection the
\* caller dialed and a context the caller may cancel or let expire
StartNewSMTPClient ==
    /\ CanStart
    /\ call' = [IdleCall EXCEPT !.kind = "client", !.pc = "spawn", !.conn = serial + 1, !.opened = 1,
                                !.connTLS = (ConnectionInfo(config).ConnectionSecurity = connSecurityTls)]
    /\ open' = open \cup {serial + 1}
    /\ serial' = serial + 1
    /\ wire' = NoWire
    /\ UNCHANGED <<auth, bookmark, clock, verdict, config, env, gor, usedConns, lastSetup>>

\* ConnectToSMTPServer -> ConnectToSMTPServerAdvanced
ConnectToSMTPServer ==
    /\ call.pc = "dial"
    /\ \E o \in Outcomes :
        /\ Decide(env, "dial", o)
        /\ env' = Answer(env, "dial", o)
        /\ LET info == ConnectionInfo(config)
               c == Traced(call, "ConnectToSMTPServer")
               msg == IF info.ConnectionSecurity = connSecurityTls
                      THEN "unable to connect to the SMTP server through TLS"
                      ELSE "unable to connect to the SMTP server"
               e == Wrap(<<"dial error">>, msg)
               failed == SetupReturn(c, IF c.kind = "test" THEN Wrap(e, "unable to connect") ELSE e)
           IN  IF o = "err"
               THEN /\ call' = [failed EXCEPT !.pc = "done"]
                    /\ lastSetup' = RecordSetup(failed)
                    /\ UNCHANGED open
               ELSE /\ call' = [c EXCEPT !.pc = "spawn", !.conn = serial, !.opened = @ + 1,
                                         !.connTLS = (info.ConnectionSecurity = connSecurityTls)]
                    /\ open' = open \cup {serial}
                    /\ UNCHANGED lastSetup
    /\ UNCHANGED <<auth, bookmark, clock, verdict, config, serial, gor, usedConns, wire>>

----------------------------------------------------------------------------
(* NewSMTPClient -> NewSMTPClientAdvanced *)

\* context.WithTimeout in the caller, context.WithCancel, make(chan error) and the go statement
NewSMTPClientSpawn ==
    /\ call.pc = "spawn"
    /\ call' = [Traced(call, "NewClient") EXCEPT !.pc = "select"]
    /\ gor' = [gor EXCEPT ![serial] = "running"]
    /\ UNCHANGED <<auth, bookmark, clock, verdict, config, env, serial, open, usedConns, lastSetup, wire>>

\* the goroutine: smtp.NewClient reads the server greeting from conn
GoNewClient(i) ==
    /\ gor[i] = "running"
    /\ IF i \notin open
       THEN /\ gor' = [gor EXCEPT ![i] = "sending"]
            /\ UNCHANGED <<env, call>>
       ELSE \E o \in Outcomes :
            /\ Decide(env, "greet", o)
            /\ env' = Answer(env, "greet", o)
            /\ IF o = "err"
               THEN /\ gor' = [gor EXCEPT ![i] = "sending"]
                    /\ UNCHANGED call
               ELSE /\ gor' = [gor EXCEPT ![i] = "done"]
                    /\ call' = IF i = serial
                               THEN [call EXCEPT !.cset = TRUE, !.tls = call.connTLS,
                                                 !.ctxErr = IF @ = "none" THEN "canceled" ELSE @]
                               ELSE call
    /\ UNCHANGED <<auth, bookmark, clock, verdict, config, serial, open, usedConns, lastSetup, wire>>

\* the deadline of the caller's context passes
Timeout ==
    /\ call.pc = "select"
    /\ call.ctxErr = "none"
    /\ call' = [call EXCEPT !.ctxErr = "deadline"]
    /\ UNCHANGED <<auth, bookmark, clock, verdict, config, env, serial, gor, open, usedConns, lastSetup, wire>>

\* the caller cancels the context it passed to NewSMTPClient
CancelCtx ==
    /\ call.kind = "client"
    /\ call.pc = "select"
    /\ call.ctxErr = "none"
    /\ call' = [call EXCEPT !.ctxErr = "canceled"]
    /\ UNCHANGED <<auth, bookmark, clock, verdict, config, env, serial, gor, open, usedConns, lastSetup, wire>>

\* select: case <-ctx.Done()
SelectCtxDone ==
    /\ call.pc = "select"
    /\ call.ctxErr # "none"
    /\ IF call.ctxErr # "canceled"
       THEN call' = SetupReturn([call EXCEPT !.timedOut = TRUE],
                                Wrap(<<"context deadline exceeded">>, "unable to connect to the SMTP server"))
       ELSE call' = [call EXCEPT !.pc = "hello"]
    /\ UNCHANGED <<auth, bookmark, clock, verdict, config, env, serial, gor, open, usedConns, lastSetup, wire>>

\* select: case err := <-ec, the rendezvous with the goroutine's ec <- err
SelectRecvErr ==
    /\ call.pc = "select"
    /\ gor[serial] = "sending"
    /\ gor' = [gor EXCEPT ![serial] = "done"]
    /\ call' = SetupReturn(call, Wrap(<<"greeting error">>, "unable to connect to the SMTP server"))
    /\ UNCHANGED <<auth, bookmark, clock, verdict, config, env, serial, open, usedConns, lastSetup, wire>>

\* if hostname != "" { c.Hello(hostname) }; a method called on the nil client
\* dereferences it (pc "panic")
Hello ==
    /\ call.pc = "hello"
    /\ IF config.Hostname = ""
       THEN call' = [call EXCEPT !.pc = "starttls"] /\ UNCHANGED env
       ELSE IF ~call.cset
       THEN call' = [Traced(call, "Hello") EXCEPT !.pc = "panic"] /\ UNCHANGED env
       ELSE \E h \in Outcomes, a \in ServerAdverts \cup {call.advert} :
            /\ HelloChoice(call, h, a)
            /\ env' = EnvAfterHello(env, call, h, a)
            /\ LET c == Traced(AfterHello(call, h, a), "Hello")
               IN  IF c.helloErr
                   THEN call' = SetupReturn(c, Wrap(<<"smtp error">>, "unable to send hello message"))
                   ELSE call' = [c EXCEPT !.pc = "starttls"]
    /\ UNCHANGED <<auth, bookmark, clock, verdict, config, serial, gor, open, usedConns, lastSetup, wire>>

\* if connectionInfo.ConnectionSecurity == connSecurityStarttls { c.StartTLS(tlsconfig) }
StartTLS ==
    /\ call.pc = "starttls"
    /\ IF ConnectionInfo(config).ConnectionSecurity # connSecurityStarttls
       THEN call' = [call EXCEPT !.pc = "auth"] /\ UNCHANGED env
       ELSE IF ~call.cset
       THEN call' = [Traced(call, "StartTLS") EXCEPT !.pc = "panic"] /\ UNCHANGED env
       ELSE \E h \in Outcomes, a \in ServerAdverts \cup {call.advert} :
            /\ HelloChoice(call, h, a)
            /\ LET c == Traced(AfterHello(call, h, a), "StartTLS")
                   e == EnvAfterHello(env, call, h, a)
               IN  IF c.helloErr
                   THEN /\ call' = [c EXCEPT !.pc = "auth", !.tlsFailed = TRUE]
                        /\ env' = e
                   ELSE \E o \in {"ok", "rejected", "handshake"}, a2 \in ServerAdverts \cup {c.advert} :
                        /\ Decide(e, "starttls", o)
                        /\ IF o = "ok" THEN e.advertTLS \in {UnsetList, a2} ELSE a2 = c.advert
                        /\ env' = IF o = "ok" THEN [Answer(e, "starttls", o) EXCEPT !.advertTLS = a2]
                                  ELSE Answer(e, "starttls", o)
                        /\ call' = [c EXCEPT !.pc = "auth",
                                             !.tls = (o # "rejected"),
                                             !.broken = (o = "handshake"),
                                             !.tlsFailed = (o # "ok"),
                                             !.advert = a2]
    /\ UNCHANGED <<auth, bookmark, clock, verdict, config, serial, gor, open, usedConns, lastSetup, wire>>

\* if connectionInfo.Auth { c.Auth(&authChooser{connectionInfo: connectionInfo}) }; return c, nil
Auth ==
    /\ call.pc = "auth"
    /\ IF ~ConnectionInfo(config).Auth
       THEN call' = SetupReturn(call, Nil) /\ UNCHANGED <<env, open>>
       ELSE IF ~call.cset
       THEN call' = [Traced(call, "Auth") EXCEPT !.pc = "panic"] /\ UNCHANGED <<env, open>>
       ELSE \E h \in Outcomes, a \in ServerAdverts \cup {call.advert} :
            /\ HelloChoice(call, h, a)
            /\ LET c == Traced(AfterHello(call, h, a), "Auth")
                   e == EnvAfterHello(env, call, h, a)
                   info == ConnectionInfo(config)
                   server == [ Name |-> info.SmtpServerName \o ":" \o info.SmtpPort,
                               TLS |-> c.tls, Auth |-> c.advert ]
                   st == authChooserStart(info, server)
               IN  IF c.helloErr
                   THEN /\ call' = SetupReturn(c, Wrap(<<"smtp error">>, "authentication failed"))
                        /\ env' = e
                        /\ UNCHANGED open
                   ELSE IF st.err # Nil
                   THEN /\ call' = SetupReturn(c, Wrap(st.err, "authentication failed"))
                        /\ env' = e
                        /\ open' = open \ {c.conn}
                   ELSE IF c.broken
                   THEN /\ call' = SetupReturn([c EXCEPT !.mech = st.mech],
                                               Wrap(<<"tls handshake error">>, "authentication failed"))
                        /\ env' = e
                        /\ UNCHANGED open
                   ELSE \E o \in {"ok", "rejected"} :
                        /\ Decide(e, "creds", o)
                        /\ env' = Answer(e, "creds", o)
                        /\ IF o = "ok"
                           THEN /\ call' = SetupReturn([c EXCEPT !.mech = st.mech, !.authed = TRUE], Nil)
                                /\ UNCHANGED open
                           ELSE /\ call' = SetupReturn([c EXCEPT !.mech = st.mech],
                                                       Wrap(<<"smtp error">>, "authentication failed"))
                                /\ open' = open \ {c.conn}
    /\ UNCHANGED <<auth, bookmark, clock, verdict, config, serial, gor, usedConns, lastSetup, wire>>

----------------------------------------------------------------------------
(* The callers after NewSMTPClient returned *)

\* SendAfterSetup without the return on a setup error
SendAfterSetupIgnoresErr ==
    /\ call.pc = "returned"
    /\ call.kind = "send"
    /\ lastSetup' = RecordSetup(call)
    /\ call' = [call EXCEPT !.pc = "mail", !.clientDefers = TRUE]
    /\ UNCHANGED <<auth, bookmark, clock, verdict, config, env, serial, gor, open, usedConns, wire>>

\* sendMailUsingConfigAdvanced: if err != nil { return err }; defer c.Quit(); defer c.Close()
SendAfterSetup ==
    /\ call.pc = "returned"
    /\ call.kind = "send"
    /\ lastSetup' = RecordSetup(call)
    /\ IF call.err # Nil
       THEN call' = [call EXCEPT !.pc = "defers"]
       ELSE call' = [call EXCEPT !.pc = "mail", !.clientDefers = TRUE]
    /\ UNCHANGED <<auth, bookmark, clock, verdict, config, env, serial, gor, open, usedConns, wire>>

\* TestConnection: if err != nil { return errors.Wrap(err, "unable to connect") }; c.Close(); c.Quit(); return nil
TestAfterSetup ==
    /\ call.pc = "returned"
    /\ call.kind = "test"
    /\ lastSetup' = RecordSetup(call)
    /\ IF call.err # Nil
       THEN /\ call' = [call EXCEPT !.pc = "defers", !.err = Wrap(@, "unable to connect")]
            /\ UNCHANGED open
       ELSE /\ call' = [Traced(Traced(call, "c.Close"), "c.Quit") EXCEPT !.pc = "defers"]
            /\ open' = open \ {call.conn}
    /\ UNCHANGED <<auth, bookmark, clock, verdict, config, env, serial, gor, usedConns, wire>>

\* the outside caller after NewSMTPClient returned: it cancels its context and
\* closes its connection
ClientAfterSetup ==
    /\ call.pc = "returned"
    /\ call.kind = "client"
    /\ call' = [call EXCEPT !.pc = "done", !.trace = Append(@, "conn.Close"),
                            !.ctxErr = IF @ = "none" THEN "canceled" ELSE @]
    /\ open' = open \ {call.conn}
    /\ usedConns' = usedConns \cup {call.conn}
    /\ UNCHANGED <<auth, bookmark, clock, verdict, config, env, serial, gor, lastSetup, wire>>

\* RunDefers without the deferred conn.Close(): only the client is closed
RunDefersNoConnClose ==
    /\ call.pc = "defers"
    /\ call' = [ (IF call.clientDefers THEN Traced(Traced(call, "c.Close"), "c.Quit") ELSE call)
                 EXCEPT !.pc = "done",
                        !.ctxErr = IF @ = "none" THEN "canceled" ELSE @ ]
    /\ open' = IF call.clientDefers THEN open \ {call.conn} ELSE open
    /\ usedConns' = usedConns \cup {call.conn}
    /\ UNCHANGED <<auth, bookmark, clock, verdict, config, env, serial, gor, lastSetup, wire>>

\* the deferred calls of sendMailUsingConfigAdvanced / TestConnection, last registered first:
\* c.Close(), c.Quit(), cancel(), conn.Close()
RunDefers ==
    /\ call.pc = "defers"
    /\ call' = [ (IF call.clientDefers THEN Traced(Traced(call, "c.Close"), "c.Quit") ELSE call)
                 EXCEPT !.pc = "done", !.trace = Append(@, "conn.Close"),
                        !.ctxErr = IF @ = "none" THEN "canceled" ELSE @ ]
    /\ open' = open \ {call.conn}
    /\ usedConns' = usedConns \cup {call.conn}
    /\ UNCHANGED <<auth, bookmark, clock, verdict, config, env, serial, gor, lastSetup, wire>>

----------------------------------------------------------------------------
(* SendMail *)

\* SendMail returns e to its caller
SendMailReturn(c, e) ==
    [c EXCEPT !.err = e, !.pc = IF c.kind = "direct" THEN "done" ELSE "defers"]

\* c.Mail(mail.from.Address)
Mail ==
    /\ call.pc = "mail"
    /\ \E h \in Outcomes, a \in ServerAdverts \cup {call.advert} :
        /\ HelloChoice(call, h, a)
        /\ LET c == Traced(AfterHello(call, h, a), "Mail")
               e == EnvAfterHello(env, call, h, a)
               failed == SendMailReturn(c, Wrap(<<"smtp error">>, "failed to set the from address"))
           IN  IF c.helloErr \/ c.broken
               THEN call' = failed /\ env' = e /\ UNCHANGED wire
               ELSE IF ~c.authed
               THEN \E n \in {"yes", "no"}, o \in Outcomes :
                    /\ Decide(e, "needauth", n)
                    /\ IF n = "yes" THEN o = "err" ELSE Decide(e, "mail", o)
                    /\ env' = IF n = "yes" THEN Answer(e, "needauth", n)
                              ELSE Answer(Answer(e, "needauth", n), "mail", o)
                    /\ IF o = "err"
                       THEN call' = failed /\ UNCHANGED wire
                       ELSE /\ call' = [c EXCEPT !.pc = "rcpt"]
                            /\ wire' = [wire EXCEPT !.from = Append(@, c.mail.from.Address)]
               ELSE \E o \in Outcomes :
                    /\ Decide(e, "mail", o)
                    /\ env' = Answer(e, "mail", o)
                    /\ IF o = "err"
                       THEN call' = failed /\ UNCHANGED wire
                       ELSE /\ call' = [c EXCEPT !.pc = "rcpt"]
                            /\ wire' = [wire EXCEPT !.from = Append(@, c.mail.from.Address)]
    /\ UNCHANGED <<auth, bookmark, clock, verdict, config, serial, gor, open, usedConns, lastSetup>>

\* Rcpt giving the server the MIME recipient instead of the envelope recipient
RcptMimeTo ==
    /\ call.pc = "rcpt"
    /\ \E o \in Outcomes :
        /\ Decide(env, "rcpt", o)
        /\ env' = Answer(env, "rcpt", o)
        /\ LET c == Traced(call, "Rcpt")
           IN  IF o = "err"
               THEN /\ call' = SendMailReturn(c, Wrap(<<"smtp error">>, "failed to set the to address"))
                    /\ UNCHANGED wire
               ELSE /\ call' = [c EXCEPT !.pc = "data"]
                    /\ wire' = [wire EXCEPT !.rcpt = Append(@, c.mail.mimeTo)]
    /\ UNCHANGED <<auth, bookmark, clock, verdict, config, serial, gor, open, usedConns, lastSetup>>

\* c.Rcpt(mail.smtpTo)
Rcpt ==
    /\ call.pc = "rcpt"
    /\ \E o \in Outcomes :
        /\ Decide(env, "rcpt", o)
        /\ env' = Answer(env, "rcpt", o)
        /\ LET c == Traced(call, "Rcpt")
           IN  IF o = "err"
               THEN /\ call' = SendMailReturn(c, Wrap(<<"smtp error">>, "failed to set the to address"))
                    /\ UNCHANGED wire
               ELSE /\ call' = [c EXCEPT !.pc = "data"]
                    /\ wire' = [wire EXCEPT !.rcpt = Append(@, c.mail.smtpTo)]
    /\ UNCHANGED <<auth, bookmark, clock, verdict, config, serial, gor, open, usedConns, lastSetup>>

\* Data going on to the body write when c.Data() failed
DataNoAbort ==
    /\ call.pc = "data"
    /\ \E o \in Outcomes :
        /\ Decide(env, "data", o)
        /\ env' = Answer(env, "data", o)
        /\ call' = [Traced(call, "Data") EXCEPT !.pc = "write"]
    /\ UNCHANGED <<auth, bookmark, clock, verdict, config, serial, gor, open, usedConns, lastSetup, wire>>

\* w, err := c.Data()
Data ==
    /\ call.pc = "data"
    /\ \E o \in Outcomes :
        /\ Decide(env, "data", o)
        /\ env' = Answer(env, "data", o)
        /\ LET c == Traced(call, "Data")
           IN  IF o = "err"
               THEN call' = SendMailReturn(c, Wrap(<<"smtp error">>, "failed to add email message data"))
               ELSE call' = [c EXCEPT !.pc = "write"]
    /\ UNCHANGED <<auth, bookmark, clock, verdict, config, serial, gor, open, usedConns, lastSetup, wire>>

\* m.SetHeaders(headers) ... m.WriteTo(w)
WriteTo ==
    /\ call.pc = "write"
    /\ \E o \in Outcomes :
        /\ Decide(env, "write", o)
        /\ env' = Answer(env, "write", o)
        /\ LET c == Traced(call, "WriteTo")
           IN  IF o = "err"
               THEN /\ call' = SendMailReturn(c, Wrap(<<"write error">>, "failed to write the email message"))
                    /\ UNCHANGED wire
               ELSE /\ call' = [c EXCEPT !.pc = "close"]
                    /\ wire' = [wire EXCEPT !.body = <<Headers(c.mail)>>]
    /\ UNCHANGED <<auth, bookmark, clock, verdict, config, serial, gor, open, usedConns, lastSetup>>

\* w.Close(); return nil
CloseWriter ==
    /\ call.pc = "close"
    /\ \E o \in Outcomes :
        /\ Decide(env, "close", o)
        /\ env' = Answer(env, "close", o)
        /\ LET c == Traced(call, "Close")
           IN  IF o = "err"
               THEN /\ call' = SendMailReturn(c, Wrap(<<"smtp error">>, "failed to close connection to the SMTP server"))
                    /\ UNCHANGED wire
               ELSE /\ call' = SendMailReturn(c, Nil)
                    /\ wire' = [wire EXCEPT !.msgs = @ \o wire.body]
    /\ UNCHANGED <<auth, bookmark, clock, verdict, config, serial, gor, open, usedConns, lastSetup>>

----------------------------------------------------------------------------
(* One smtp.Client.Auth exchange with an arbitrary server.  The server may *)
(* advertise any list, be encrypted or not, carry any name, and answer any *)
(* challenge.                                                              *)

ServerInfos ==
    [ Name : {"smtp.test:25", "evil.test:25"}, TLS : BOOLEAN, Auth : AdvertLists ]

AuthConnectionInfos ==
    [ ConnectionSecurity : {connSecurityTls},
      SmtpServerName : {"smtp.test"},
      SmtpServerHost : {"smtp.test"},
      SmtpPort : {SMTPPort},
      Auth : {TRUE},
      SmtpUsername : {"user", "admin"},
      SmtpPassword : {"secret"} ]

Challenges == {"Username:", "Password:", "Realm:"}

AuthIdle ==
    [ pc |-> "idle", chooser |-> FALSE, a |-> LoginAuth("", "", ""), info |-> ConnectionInfo(CHOOSE c \in SMTPConfigs : TRUE),
      server |-> [Name |-> "", TLS |-> FALSE, Auth |-> <<>>],
      started |-> <<>>, startOk |-> FALSE, sent |-> <<>>, rounds |-> 0, err |-> Nil ]

\* smtp.Client.Auth up to the AUTH command: a.Start, and c.Quit() when it fails
AuthBegin(s, chooser, info, a, server) ==
    LET st == AuthStart(a, server)
    IN  [ s EXCEPT !.chooser = chooser, !.info = info, !.a = a, !.server = server,
                   !.started = Append(@, a.kind),
                   !.startOk = (st.err = Nil),
                   !.err = st.err,
                   !.sent = IF st.err = Nil THEN <<st.resp>> ELSE <<>>,
                   !.pc = IF st.err = Nil THEN "await" ELSE "done" ]

\* c.Auth(&authChooser{connectionInfo: connectionInfo}): authChooser.Start
ChooserStart ==
    /\ auth.pc = "idle"
    /\ \E info \in AuthConnectionInfos, server \in ServerInfos :
        auth' = AuthBegin(auth, TRUE, info, authChooserPick(info, server), server)
    /\ UNCHANGED <<bookmark, clock, verdict, config, env, serial, call, gor, open, usedConns, lastSetup, wire>>

\* c.Auth(LoginAuth(username, password, host)): loginAuth.Start
LoginStart ==
    /\ auth.pc = "idle"
    /\ \E host \in {"smtp.test:25", "evil.test:25"}, server \in ServerInfos :
        auth' = AuthBegin(auth, FALSE, auth.info, LoginAuth("user", "secret", host), server)
    /\ UNCHANGED <<bookmark, clock, verdict, config, env, serial, call, gor, open, usedConns, lastSetup, wire>>

\* smtp.Client.Auth, one turn of its loop: the server's reply and a.Next
ServerReply ==
    /\ auth.pc = "await"
    /\ auth.rounds < MaxRounds
    /\ \E code \in {334, 235, 535}, msg \in Challenges :
        LET nx == AuthNext(auth.a, msg, code = 334)
        IN  IF code = 535
            THEN auth' = [auth EXCEPT !.pc = "done", !.err = <<"smtp error">>, !.rounds = @ + 1]
            ELSE IF nx.err # Nil
            THEN auth' = [auth EXCEPT !.pc = "done", !.err = nx.err, !.rounds = @ + 1]
            ELSE IF nx.resp = NilBytes
            THEN auth' = [auth EXCEPT !.pc = "done", !.rounds = @ + 1]
            ELSE auth' = [auth EXCEPT !.sent = Append(@, nx.resp), !.rounds = @ + 1]
    /\ UNCHANGED <<bookmark, clock, verdict, config, env, serial, call, gor, open, usedConns, lastSetup, wire>>

----------------------------------------------------------------------------
(* Channel bookmark record: IsValid and PreSave *)

ChannelBookmarkLink == "link"
ChannelBookmarkFile == "file"

\* a value NewId() returns: 26 characters of the id alphabet
WellFormedId == "k9x4m7q2w8e5r1t6y3u0i9o8pa"

IsValidId(id) == id = WellFormedId

WellFormedUrls == {"https://mattermost.com", "https://mattermost.com/some-image-without-extension"}

IsValidHTTPURL(u) == u \in WellFormedUrls

EmptyBookmark ==
    [ Id |-> "", ChannelId |-> "", OwnerId |-> "", FileId |-> "", DisplayName |-> "",
      SortOrder |-> 0, LinkUrl |-> "", ImageUrl |-> "", Emoji |-> "", Type |-> "",
      CreateAt |-> 0, UpdateAt |-> 0, DeleteAt |-> 0, OriginalId |-> "", ParentId |-> "" ]

Bookmarks ==
    [ Id : {"", WellFormedId},
      ChannelId : {"invalid", WellFormedId},
      OwnerId : {"", WellFormedId},
      FileId : {"", "invalid", WellFormedId},
      DisplayName : {"", "display name"},
      SortOrder : {0},
      LinkUrl : {"", "invalid", "https://mattermost.com"},
      ImageUrl : {"", "invalid", "https://mattermost.com/some-image-without-extension"},
      Emoji : {""},
      Type : {"invalid", ChannelBookmarkLink, ChannelBookmarkFile},
      CreateAt : {0, 2},
      UpdateAt : {0, 3},
      DeleteAt : {0, 4},
      OriginalId : {"", "invalid", WellFormedId},
      ParentId : {"", "invalid", WellFormedId} ]

\* IsValid without the check of the parent id
IsValidNoParent(o) ==
    IF ~IsValidId(o.Id) THEN "id"
    ELSE IF ~IsValidId(o.OwnerId) THEN "owner_id"
    ELSE IF ~IsValidId(o.ChannelId) THEN "channel_id"
    ELSE IF o.DisplayName = "" THEN "display_name"
    ELSE IF ~(o.Type = ChannelBookmarkLink \/ o.Type = ChannelBookmarkFile) THEN "type"
    ELSE IF o.Type = ChannelBookmarkLink /\ (o.LinkUrl = "" \/ ~IsValidHTTPURL(o.LinkUrl)) THEN "link_url"
    ELSE IF o.Type = ChannelBookmarkFile /\ (o.FileId = "" \/ ~IsValidId(o.FileId)) THEN "file_id"
    ELSE IF o.ImageUrl # "" /\ ~IsValidHTTPURL(o.ImageUrl) THEN "image_url"
    ELSE IF o.OriginalId # "" /\ ~IsValidId(o.OriginalId) THEN "original_id"
    ELSE IF o.CreateAt = 0 THEN "create_at"
    ELSE IF o.UpdateAt = 0 THEN "update_at"
    ELSE ""

\* IsValid: the first failed check, "" when the record is valid
IsValid(o) ==
    IF ~IsValidId(o.Id) THEN "id"
    ELSE IF ~IsValidId(o.OwnerId) THEN "owner_id"
    ELSE IF ~IsValidId(o.ChannelId) THEN "channel_id"
    ELSE IF o.DisplayName = "" THEN "display_name"
    ELSE IF ~(o.Type = ChannelBookmarkLink \/ o.Type = ChannelBookmarkFile) THEN "type"
    ELSE IF o.Type = ChannelBookmarkLink /\ (o.LinkUrl = "" \/ ~IsValidHTTPURL(o.LinkUrl)) THEN "link_url"
    ELSE IF o.Type = ChannelBookmarkFile /\ (o.FileId = "" \/ ~IsValidId(o.FileId)) THEN "file_id"
    ELSE IF o.ImageUrl # "" /\ ~IsValidHTTPURL(o.ImageUrl) THEN "image_url"
    ELSE IF o.OriginalId # "" /\ ~IsValidId(o.OriginalId) THEN "original_id"
    ELSE IF o.ParentId # "" /\ ~IsValidId(o.ParentId) THEN "parent_id"
    ELSE IF o.CreateAt = 0 THEN "create_at"
    ELSE IF o.UpdateAt = 0 THEN "update_at"
    ELSE ""

\* PreSave stamping only the creation time
PreSaveCreateOnly(o, now) ==
    [ o EXCEPT !.Id = IF @ = "" THEN WellFormedId ELSE @,
               !.CreateAt = now ]

\* PreSave at clock reading now
PreSave(o, now) ==
    [ o EXCEPT !.Id = IF @ = "" THEN WellFormedId ELSE @,
               !.CreateAt = now,
               !.UpdateAt = now ]

\* PreUpdate stamping the clock reading as it is
PreUpdateAtClock(o, now) ==
    [ o EXCEPT !.UpdateAt = now ]

\* PreUpdate at clock reading now: the update timestamp advances to the clock
\* reading, and past its previous value when the clock has not moved beyond it
PreUpdate(o, now) ==
    [ o EXCEPT !.UpdateAt = IF now > @ THEN now ELSE @ + 1 ]

\* TestChannelBookmarkIsValid: the table of records and expectations
TestBase ==
    [ EmptyBookmark EXCEPT !.Id = WellFormedId, !.ChannelId = WellFormedId, !.OwnerId = WellFormedId,
                           !.DisplayName = "display name", !.Type = ChannelBookmarkLink,
                           !.CreateAt = 2, !.UpdateAt = 3, !.DeleteAt = 4 ]

TestLink == [ TestBase EXCEPT !.LinkUrl = "https://mattermost.com" ]

TestFile == [ TestBase EXCEPT !.Type = ChannelBookmarkFile, !.FileId = WellFormedId ]

TestCases ==
    { [ Bookmark |-> EmptyBookmark, ExpectedIsValid |-> FALSE ],
      [ Bookmark |-> [TestBase EXCEPT !.ChannelId = "", !.CreateAt = 0], ExpectedIsValid |-> FALSE ],
      [ Bookmark |-> [TestBase EXCEPT !.ChannelId = "", !.UpdateAt = 0], ExpectedIsValid |-> FALSE ],
      [ Bookmark |-> [TestBase EXCEPT !.ChannelId = ""], ExpectedIsValid |-> FALSE ],
      [ Bookmark |-> [TestBase EXCEPT !.ChannelId = "invalid"], ExpectedIsValid |-> FALSE ],
      [ Bookmark |-> [TestBase EXCEPT !.OwnerId = ""], ExpectedIsValid |-> FALSE ],
      [ Bookmark |-> [TestBase EXCEPT !.OwnerId = "invalid"], ExpectedIsValid |-> FALSE ],
      [ Bookmark |-> [TestBase EXCEPT !.DisplayName = ""], ExpectedIsValid |-> FALSE ],
      [ Bookmark |-> [TestBase EXCEPT !.Type = ""], ExpectedIsValid |-> FALSE ],
      [ Bookmark |-> [TestBase EXCEPT !.Type = "invalid"], ExpectedIsValid |-> FALSE ],
      [ Bookmark |-> TestBase, ExpectedIsValid |-> FALSE ],
      [ Bookmark |-> [TestBase EXCEPT !.LinkUrl = "invalid"], ExpectedIsValid |-> FALSE ],
      [ Bookmark |-> TestLink, ExpectedIsValid |-> TRUE ],
      [ Bookmark |-> [TestLink EXCEPT !.ImageUrl = "invalid"], ExpectedIsValid |-> FALSE ],
      [ Bookmark |-> [TestLink EXCEPT !.ImageUrl = "https://mattermost.com/some-image-without-extension"],
        ExpectedIsValid |-> TRUE ],
      [ Bookmark |-> [TestBase EXCEPT !.Type = ChannelBookmarkFile], ExpectedIsValid |-> FALSE ],
      [ Bookmark |-> [TestFile EXCEPT !.FileId = "invalid"], ExpectedIsValid |-> FALSE ],
      [ Bookmark |-> TestFile, ExpectedIsValid |-> TRUE ],
      [ Bookmark |-> [TestFile EXCEPT !.OriginalId = "invalid"], ExpectedIsValid |-> FALSE ],
      [ Bookmark |-> [TestFile EXCEPT !.ParentId = "invalid"], ExpectedIsValid |-> FALSE ] }

\* TestChannelBookmarkPreSave, TestChannelBookmarkPreUpdate: the records the
\* save/update sequences start from
LifecycleBookmarks ==
    { [ TestLink EXCEPT !.Id = id, !.Type = ty, !.FileId = IF ty = ChannelBookmarkFile THEN WellFormedId ELSE "",
                        !.CreateAt = c, !.UpdateAt = u, !.DeleteAt = 0 ] :
        id \in {"", WellFormedId}, ty \in {ChannelBookmarkLink, ChannelBookmarkFile},
        c \in {0, 2}, u \in {0, 3} }

\* the last call on the record, the record before it, its result, and the
\* calls of the current save/update sequence with their clock readings
NoVerdict == [ op |-> "none", before |-> EmptyBookmark, res |-> "", hist |-> <<>> ]

\* the clock advances
Tick ==
    /\ clock < MaxClock
    /\ clock' = clock + 1
    /\ UNCHANGED <<bookmark, verdict, auth, config, env, serial, call, gor, open, usedConns, lastSetup, wire>>

\* bookmark.IsValid()
Validate ==
    /\ verdict' = [ op |-> "IsValid", before |-> EmptyBookmark, res |-> IsValid(bookmark),
                    hist |-> verdict.hist ]
    /\ UNCHANGED <<bookmark, clock, auth, config, env, serial, call, gor, open, usedConns, lastSetup, wire>>

\* bookmark.PreSave()
DoPreSave ==
    /\ verdict.op # "PreSave"
    /\ bookmark' = PreSave(bookmark, clock)
    /\ verdict' = [ op |-> "PreSave", before |-> bookmark, res |-> "",
                    hist |-> << [ op |-> "PreSave", at |-> clock ] >> ]
    /\ UNCHANGED <<clock, auth, config, env, serial, call, gor, open, usedConns, lastSetup, wire>>

\* bookmark.PreUpdate()
DoPreUpdate ==
    /\ Len(verdict.hist) <= MaxUpdates
    /\ bookmark' = PreUpdate(bookmark, clock)
    /\ verdict' = [ op |-> "PreUpdate", before |-> bookmark, res |-> "",
                    hist |-> Append(verdict.hist, [ op |-> "PreUpdate", at |-> clock ]) ]
    /\ UNCHANGED <<clock, auth, config, env, serial, call, gor, open, usedConns, lastSetup, wire>>

----------------------------------------------------------------------------
(* Specifications *)

InitMail ==
    /\ config \in SMTPConfigs
    /\ env = EnvInit
    /\ serial = 0
    /\ call = IdleCall
    /\ gor = [i \in Calls |-> "none"]
    /\ open = {}
    /\ usedConns = {}
    /\ lastSetup = [k \in {"send", "test"} |-> NoSetup]
    /\ wire = NoWire

Init ==
    /\ InitMail
    /\ auth = AuthIdle
    /\ bookmark = EmptyBookmark
    /\ clock = 1
    /\ verdict = NoVerdict

Next ==
    \/ StartSend
    \/ TestConnection
    \/ StartSendMail
    \/ ConnectToSMTPServer
    \/ NewSMTPClientSpawn
    \/ \E i \in Calls : GoNewClient(i)
    \/ Timeout
    \/ SelectCtxDone
    \/ SelectRecvErr
    \/ Hello
    \/ StartTLS
    \/ Auth
    \/ SendAfterSetup
    \/ TestAfterSetup
    \/ RunDefers
    \/ Mail
    \/ Rcpt
    \/ Data
    \/ WriteTo
    \/ CloseWriter

Spec == Init /\ [][Next]_vars

NextClient ==
    \/ StartNewSMTPClient
    \/ NewSMTPClientSpawn
    \/ \E i \in Calls : GoNewClient(i)
    \/ Timeout
    \/ CancelCtx
    \/ SelectCtxDone
    \/ SelectRecvErr
    \/ Hello
    \/ StartTLS
    \/ Auth
    \/ ClientAfterSetup

SpecClient == Init /\ [][NextClient]_vars

InitAuth ==
    /\ config = CHOOSE c \in SMTPConfigs : TRUE
    /\ env = EnvInit
    /\ serial = 0
    /\ call = IdleCall
    /\ gor = [i \in Calls |-> "none"]
    /\ open = {}
    /\ usedConns = {}
    /\ lastSetup = [k \in {"send", "test"} |-> NoSetup]
    /\ wire = NoWire
    /\ auth = AuthIdle
    /\ bookmark = EmptyBookmark
    /\ clock = 1
    /\ verdict = NoVerdict

NextAuth ==
    \/ ChooserStart
    \/ LoginStart
    \/ ServerReply

SpecAuth == InitAuth /\ [][NextAuth]_vars

InitBookmark ==
    /\ config = CHOOSE c \in SMTPConfigs : TRUE
    /\ env = EnvInit
    /\ serial = 0
    /\ call = IdleCall
    /\ gor = [i \in Calls |-> "none"]
    /\ open = {}
    /\ usedConns = {}
    /\ lastSetup = [k \in {"send", "test"} |-> NoSetup]
    /\ wire = NoWire
    /\ auth = AuthIdle
    /\ bookmark \in Bookmarks
    /\ clock = 1
    /\ verdict = NoVerdict

NextBookmark ==
    \/ Tick
    \/ Validate
    \/ DoPreSave

SpecBookmark == InitBookmark /\ [][NextBookmark]_vars

InitLifecycle ==
    /\ config = CHOOSE c \in SMTPConfigs : TRUE
    /\ env = EnvInit
    /\ serial = 0
    /\ call = IdleCall
    /\ gor = [i \in Calls |-> "none"]
    /\ open = {}
    /\ usedConns = {}
    /\ lastSetup = [k \in {"send", "test"} |-> NoSetup]
    /\ wire = NoWire
    /\ auth = AuthIdle
    /\ bookmark \in LifecycleBookmarks
    /\ clock = 1
    /\ verdict = NoVerdict

NextLifecycle ==
    \/ Tick
    \/ DoPreSave
    \/ DoPreUpdate

SpecLifecycle == InitLifecycle /\ [][NextLifecycle]_vars

----------------------------------------------------------------------------
(* Properties of SendMail *)

SendMailPhases == <<"Mail", "Rcpt", "Data", "WriteTo", "Close">>

PhaseMessage ==
    [ p \in {"Mail", "Rcpt", "Data", "WriteTo", "Close"} |->
        CASE p = "Mail" -> "failed to set the from address"
          [] p = "Rcpt" -> "failed to set the to address"
          [] p = "Data" -> "failed to add email message data"
          [] p = "WriteTo" -> "failed to write the email message"
          [] p = "Close" -> "failed to close connection to the SMTP server" ]

IsSendPhase(step) == \E k \in 1..5 : SendMailPhases[k] = step

\* the SendMail phases the current call has executed, in order
PhasesRun == SelectSeq(call.trace, IsSendPhase)

SendMailReturned == call.pc \in {"defers", "done"} /\ Len(PhasesRun) > 0

PhaseKey ==
    [ p \in {"Mail", "Rcpt", "Data", "WriteTo", "Close"} |->
        CASE p = "Mail" -> "mail"
          [] p = "Rcpt" -> "rcpt"
          [] p = "Data" -> "data"
          [] p = "WriteTo" -> "write"
          [] p = "Close" -> "close" ]

\* C1: the phases a call has run are a prefix of MAIL, RCPT, DATA, write, close
\* (fixed order, each at most once); a phase the server or the writer fails is
\* the last one run and SendMail has returned that phase's error; and once
\* SendMail has returned it either ran all five and returned nil or returned
\* the error of the last phase it ran.
C1_PhasesInOrder ==
    /\ Len(PhasesRun) <= 5
    /\ \A k \in 1..Len(PhasesRun) : PhasesRun[k] = SendMailPhases[k]
    /\ \A k \in 1..Len(PhasesRun) :
         env.ans[PhaseKey[PhasesRun[k]]] = "err" =>
            /\ k = Len(PhasesRun)
            /\ SendMailReturned
            /\ call.err # Nil
            /\ call.err[1] = PhaseMessage[PhasesRun[k]]
    /\ SendMailReturned =>
         IF call.err = Nil
         THEN PhasesRun = SendMailPhases
         ELSE call.err[1] = PhaseMessage[PhasesRun[Len(PhasesRun)]]

C1_Witness ==
    /\ call.pc = "done"
    /\ PhasesRun = <<"Mail", "Rcpt", "Data">>
    /\ call.err = <<"failed to add email message data", "smtp error">>

SendMailSucceeded == SendMailReturned /\ call.err = Nil

\* C2 as stated: after a successful SendMail the server has one envelope
\* sender, mail.from.Address, one envelope recipient, mail.smtpTo, and the
\* message's To header is mail.mimeTo; through
\* SendMailWithEmbeddedFilesUsingConfig both are the supplied address.
C2_Original ==
    SendMailSucceeded =>
        /\ wire.from = <<call.mail.from.Address>>
        /\ wire.rcpt = <<call.mail.smtpTo>>
        /\ Len(wire.msgs) = 1
        /\ wire.msgs[1]["To"] = call.mail.mimeTo
        /\ call.kind = "send" => call.mail.smtpTo = call.to /\ call.mail.mimeTo = call.to

\* C2 amended: as C2, except that the To header is mail.mimeTo only when
\* mail.mimeHeaders has no "To" entry; a "To" entry of mimeHeaders replaces it
\* with its RFC 2047 encoding.
C2_Envelope ==
    SendMailSucceeded =>
        /\ wire.from = <<call.mail.from.Address>>
        /\ wire.rcpt = <<call.mail.smtpTo>>
        /\ Len(wire.msgs) = 1
        /\ wire.msgs[1]["To"] =
             IF "To" \in DOMAIN call.mail.mimeHeaders
             THEN encodeRFC2047Word(call.mail.mimeHeaders["To"])
             ELSE call.mail.mimeTo
        /\ call.kind = "send" =>
             /\ call.mail.smtpTo = call.to
             /\ call.mail.mimeTo = call.to
             /\ wire.msgs[1]["To"] = call.to

C2_Witness ==
    /\ SendMailSucceeded
    /\ call.mail.smtpTo # call.mail.mimeTo
    /\ "To" \notin DOMAIN call.mail.mimeHeaders
    /\ wire.rcpt = <<"carol@y.test">>
    /\ wire.msgs[1]["To"] = "bob@x.test"

----------------------------------------------------------------------------
(* Properties of the client setup *)

InSetupOrLater == call.kind \in {"send", "test"}

Issued(step) == \E k \in 1..Len(call.trace) : call.trace[k] = step

\* C3 as stated: once the STARTTLS upgrade of a call has failed, the call
\* issues neither Auth nor Mail, and NewSMTPClientAdvanced returns an error.
C3_StartTLSFailureReturned ==
    (InSetupOrLater /\ call.tlsFailed) =>
        /\ ~Issued("Auth")
        /\ ~Issued("Mail")
        /\ call.setupLen >= 0 => call.err # Nil

\* C6 cases: the server requires authentication and the call reached it
\* without having authenticated
UnauthenticatedMail ==
    /\ ~config.EnableSMTPAuth
    /\ Issued("Mail")
    /\ ~call.helloErr /\ ~call.broken
    /\ env.ans["needauth"] = "yes"

CredentialsNotAccepted == Issued("Auth") /\ ~call.authed

SendDone == call.kind = "send" /\ call.pc = "done"

\* C6 as stated: a send to a server requiring authentication that the client
\* does not supply fails with the authentication-phase error.
C6_Original ==
    (SendDone /\ (UnauthenticatedMail \/ CredentialsNotAccepted)) =>
        /\ call.err # Nil
        /\ call.err[1] = "authentication failed"

\* C6 amended: such a send fails; with EnableSMTPAuth true and the credentials
\* not accepted the error is the authentication-phase error and no send phase
\* runs, with EnableSMTPAuth false no authentication is attempted and the
\* error is that of the first envelope command, MAIL.
C6_AuthRequired ==
    /\ (SendDone /\ CredentialsNotAccepted) =>
         /\ call.err # Nil
         /\ call.err[1] = "authentication failed"
         /\ PhasesRun = <<>>
    /\ (SendDone /\ UnauthenticatedMail) =>
         /\ call.err # Nil
         /\ call.err[1] = "failed to set the from address"
         /\ ~Issued("Auth")
         /\ PhasesRun = <<"Mail">>

C6_Witness ==
    /\ SendDone
    /\ UnauthenticatedMail
    /\ call.err = <<"failed to set the from address", "smtp error">>

\* C7: a call dials at most once, the connection it uses was not used by an
\* earlier call, and when the call has returned no connection is left open.
C7_OwnConnectionClosed ==
    /\ call.opened <= 1
    /\ (call.conn # 0 /\ call.pc # "done") => call.conn \notin usedConns
    /\ call.pc \in {"idle", "done"} => open = {}
    /\ call.kind = "direct" => call.opened = 0

C7_Witness ==
    /\ call.pc = "done"
    /\ call.timedOut
    /\ call.opened = 1
    /\ serial = 2
    /\ usedConns = {1, 2}
    /\ open = {}

TestNeverSends ==
    call.kind = "test" =>
        /\ ~Issued("Mail") /\ ~Issued("Rcpt") /\ ~Issued("Data")
        /\ wire = NoWire

TestDisabledFailsEarly ==
    (call.kind = "test" /\ ~config.SendEmailNotifications) =>
        /\ call.pc = "done"
        /\ call.err # Nil
        /\ call.opened = 0
        /\ call.trace = <<>>

SameSetup ==
    (lastSetup["send"].set /\ lastSetup["test"].set) =>
        /\ lastSetup["send"].trace = lastSetup["test"].trace
        /\ lastSetup["send"].ok = lastSetup["test"].ok

\* C8 as stated: with SendEmailNotifications true, TestConnection and a send
\* run the same setup steps with the same outcome; TestConnection never
\* issues MAIL, RCPT or DATA; with SendEmailNotifications false it fails
\* before any connection is opened.
C8_Original ==
    /\ config.SendEmailNotifications => SameSetup
    /\ TestNeverSends
    /\ TestDisabledFailsEarly

\* C8 amended: the same, for configurations whose Server is not empty; with an
\* empty Server the send returns nil without connecting while TestConnection
\* still connects.
C8_SameSetup ==
    /\ (config.SendEmailNotifications /\ config.Server # "") => SameSetup
    /\ (config.Server = "" /\ lastSetup["send"].set) =>
         lastSetup["send"].trace = <<>> /\ lastSetup["send"].ok
    /\ TestNeverSends
    /\ TestDisabledFailsEarly

C8_Witness ==
    /\ config.SendEmailNotifications
    /\ config.Server # ""
    /\ lastSetup["send"].set
    /\ lastSetup["test"].set
    /\ lastSetup["test"].trace = <<"ConnectToSMTPServer", "NewClient", "Hello", "StartTLS", "Auth">>
    /\ lastSetup["test"].ok
    /\ call.kind = "test"
    /\ call.pc = "done"

----------------------------------------------------------------------------
(* Properties of the authentication strategies *)

Advertises(server, method) == \E k \in DOMAIN server.Auth : server.Auth[k] = method

CredentialsHanded ==
    \E k \in DOMAIN auth.sent : auth.sent[k] \in {auth.a.username, auth.a.password}

\* C4: a LOGIN exchange whose session is unencrypted or whose server name is
\* not the expected host ends at Start with an error, and the username or the
\* password is handed to the server only in an exchange whose Start succeeded
\* on an encrypted session with the expected name.
C4_LoginRefused ==
    (auth.pc # "idle" /\ auth.a.kind = "login") =>
        /\ (~auth.server.TLS \/ auth.server.Name # auth.a.host) =>
             /\ ~auth.startOk
             /\ auth.err # Nil
             /\ auth.pc = "done"
             /\ auth.sent = <<>>
        /\ CredentialsHanded =>
             /\ auth.startOk
             /\ auth.server.TLS
             /\ auth.server.Name = auth.a.host

C4_Witness ==
    /\ auth.a.kind = "login"
    /\ auth.server.TLS
    /\ auth.server.Name # auth.a.host
    /\ auth.pc = "done"
    /\ auth.err = <<"wrong host name">>

\* C5: authChooser.Start starts exactly one strategy, PLAIN when the advertised
\* list contains "PLAIN" and LOGIN otherwise, built from the configured
\* username and password.
C5_ChooserByAdvert ==
    (auth.pc # "idle" /\ auth.chooser) =>
        /\ Len(auth.started) = 1
        /\ auth.started[1] = (IF Advertises(auth.server, "PLAIN") THEN "plain" ELSE "login")
        /\ auth.a.username = auth.info.SmtpUsername
        /\ auth.a.password = auth.info.SmtpPassword
        /\ auth.a.host = auth.info.SmtpServerName \o ":" \o auth.info.SmtpPort

C5_Witness ==
    /\ auth.chooser
    /\ auth.server.Auth = <<"LOGIN", "PLAIN">>
    /\ auth.started = <<"plain">>
    /\ auth.a.username = "admin"

----------------------------------------------------------------------------
(* Properties of the bookmark record *)

WellFormedBookmark(o) ==
    /\ IsValidId(o.Id)
    /\ IsValidId(o.OwnerId)
    /\ IsValidId(o.ChannelId)
    /\ o.DisplayName # ""
    /\ o.CreateAt # 0
    /\ o.UpdateAt # 0
    /\ \/ o.Type = ChannelBookmarkLink /\ IsValidHTTPURL(o.LinkUrl)
       \/ o.Type = ChannelBookmarkFile /\ IsValidId(o.FileId)
    /\ o.ImageUrl = "" \/ IsValidHTTPURL(o.ImageUrl)
    /\ o.OriginalId = "" \/ IsValidId(o.OriginalId)
    /\ o.ParentId = "" \/ IsValidId(o.ParentId)

C10_PreSaveFrame ==
    (verdict.op = "PreSave" /\ verdict.before.CreateAt = 0 /\ verdict.before.UpdateAt = 0
        /\ verdict.before.Id # "") =>
        /\ bookmark.CreateAt # 0
        /\ bookmark.UpdateAt # 0
        /\ [bookmark EXCEPT !.CreateAt = 0, !.UpdateAt = 0] = verdict.before

C10_Witness ==
    /\ verdict.op = "PreSave"
    /\ verdict.before.CreateAt = 0
    /\ verdict.before.UpdateAt = 0
    /\ verdict.before.Id = WellFormedId
    /\ verdict.before.DisplayName = "display name"
    /\ bookmark.CreateAt = 2
    /\ bookmark.UpdateAt = 2

----------------------------------------------------------------------------
(* Properties of the handshake goroutine *)

InClientSetup == call.kind \in {"send", "test", "client"}

\* C12: NewSMTPClientAdvanced returns a nil error only with the handshake
\* completed and the client set, and never goes on to the greeting, the TLS
\* upgrade or the authentication with an unset client, whenever the caller's
\* context is cancelled or expires.
C12_NilErrorOnlyWithClient ==
    InClientSetup =>
        /\ call.pc \in {"hello", "starttls", "auth", "panic"} => call.cset
        /\ (call.pc = "returned" /\ call.err = Nil) => call.cset

\* goroutine i is at ec <- err and the call that made ec has left the select,
\* the only receive from ec
BlockedOnSend(i) ==
    /\ gor[i] = "sending"
    /\ i # serial \/ call.pc # "select"

\* a goroutine blocked on its send stays blocked: no step lets it go on
SendBlockedForever == [][\A i \in Calls : BlockedOnSend(i) => BlockedOnSend(i)']_vars

\* C13: the handshake goroutine terminates in every execution, also when
\* NewSMTPClientAdvanced has returned on a timeout and the handshake fails
\* afterwards: it is never left blocked on sending its error.
C13_GoroutineNeverBlocked ==
    \A i \in Calls : ~BlockedOnSend(i)

\* the calls so far are one PreSave followed by PreUpdate calls only
SavedThenUpdated ==
    /\ Len(verdict.hist) >= 2
    /\ verdict.hist[1].op = "PreSave"
    /\ verdict.op = "PreUpdate"

====
